---- MODULE Spec2Model ----
(***************************************************************************)
(* ccputemp: a sampling loop around one thermal-zone file.                 *)
(*                                                                         *)
(* The model follows src/ccputemp.c.  C `float` is IEEE-754 binary32 with  *)
(* every operation rounded to nearest-even (FLT_EVAL_METHOD 0, no fused    *)
(* multiply-add).  A float is the record [s, m, e] with value s * m * 2^e, *)
(* m = 0 for zero and 2^23 <= m < 2^24 otherwise.  The values the program  *)
(* computes stay far from overflow and underflow, so no infinities, NaNs   *)
(* or subnormal results arise.                                             *)
(***************************************************************************)
EXTENDS Integers, Sequences, FiniteSets

\* ------------------------------------------------------------------ bounds

\* largest argument of -s that is tried
MaxSeconds == 6
\* ticks after which an unbounded run is no longer followed
MaxTicks == 6

\* --------------------------------------------------------- binary32 floats

RECURSIVE BitLen(_)
BitLen(n) == IF n = 0 THEN 0 ELSE 1 + BitLen(n \div 2)

FZero == [s |-> 1, m |-> 0, e |-> 0]

\* s * T * 2^E (T > 0) rounded to 24 significant bits, ties to even
FRound(s, T, E) ==
    LET k == BitLen(T) - 24 IN
    IF k <= 0 THEN [s |-> s, m |-> T * 2^(0 - k), e |-> E + k]
    ELSE LET q    == T \div 2^k
             r    == T % 2^k
             half == 2^(k - 1)
             q2   == IF r > half \/ (r = half /\ q % 2 = 1) THEN q + 1 ELSE q
         IN  IF q2 = 16777216
             THEN [s |-> s, m |-> 8388608, e |-> E + k + 1]
             ELSE [s |-> s, m |-> q2, e |-> E + k]

\* (float)n for an int n
IntToFloat(n) ==
    IF n = 0 THEN FZero
    ELSE IF n < 0 THEN FRound(-1, 0 - n, 0) ELSE FRound(1, n, 0)

MagLess(a, b) ==
    IF b.m = 0 THEN FALSE
    ELSE IF a.m = 0 THEN TRUE
    ELSE a.e < b.e \/ (a.e = b.e /\ a.m < b.m)

\* a < b
FLess(a, b) ==
    IF a.s = 1 /\ b.s = 1 THEN MagLess(a, b)
    ELSE IF a.s = -1 /\ b.s = -1 THEN MagLess(b, a)
    ELSE a.s = -1 /\ b.s = 1

FLeq(a, b) == ~FLess(b, a)

\* a + b: the smaller operand is aligned with three guard bits, the bits
\* shifted out are kept as a sticky bit, and the sum is rounded once
FAdd(x, y) ==
    IF x.m = 0 THEN y
    ELSE IF y.m = 0 THEN x
    ELSE LET a       == IF MagLess(x, y) THEN y ELSE x
             b       == IF MagLess(x, y) THEN x ELSE y
             d       == IF a.e - b.e > 30 THEN 30 ELSE a.e - b.e
             M1      == a.m * 8
             shifted == (b.m * 8) \div 2^d
             sticky  == (b.m * 8) % 2^d # 0
             M2      == IF sticky /\ shifted % 2 = 0 THEN shifted + 1 ELSE shifted
             T       == IF a.s = b.s THEN M1 + M2 ELSE M1 - M2
         IN  IF T = 0 THEN FZero ELSE FRound(a.s, T, a.e - 3)

\* a * b: the 48-bit product of the significands in two 24-bit halves
FMul(x, y) ==
    IF x.m = 0 \/ y.m = 0 THEN FZero
    ELSE LET a      == x.m \div 4096
             b      == x.m % 4096
             c      == y.m \div 4096
             d      == y.m % 4096
             mid    == a * d + b * c
             midlow == (mid % 4096) * 4096 + b * d
             L      == midlow % 16777216
             H      == a * c + (mid \div 4096) + (midlow \div 16777216)
             top    == H * 8 + (L \div 2097152)
             T      == IF L % 2097152 # 0 /\ top % 2 = 0 THEN top + 1 ELSE top
         IN  FRound(x.s * y.s, T, x.e + y.e + 21)

\* n further quotient bits of rem / den by long division: <<quotient, remainder>>
RECURSIVE DivBits(_, _, _, _)
DivBits(q, rem, den, n) ==
    IF n = 0 THEN <<q, rem>>
    ELSE IF 2 * rem >= den
         THEN DivBits(2 * q + 1, 2 * rem - den, den, n - 1)
         ELSE DivBits(2 * q, 2 * rem, den, n - 1)

\* a / b, b # 0
FDiv(x, y) ==
    IF x.m = 0 THEN FZero
    ELSE LET qr == DivBits(x.m \div y.m, x.m % y.m, y.m, 26)
             T  == 2 * qr[1] + (IF qr[2] # 0 THEN 1 ELSE 0)
         IN  FRound(x.s * y.s, T, x.e - y.e - 27)

\* printf("%.1f"): the value in tenths, rounded from the exact binary value,
\* ties to even
Fmt1(x) ==
    IF x.m = 0 THEN 0
    ELSE IF x.e >= 0 THEN x.s * x.m * 2^(x.e) * 10
    ELSE LET k    == IF 0 - x.e > 30 THEN 30 ELSE 0 - x.e
             N    == x.m * 10
             q    == N \div 2^k
             r    == N % 2^k
             half == 2^(k - 1)
         IN  x.s * (IF r > half \/ (r = half /\ q % 2 = 1) THEN q + 1 ELSE q)

\* ------------------------------------------------------------- conversion

F_1_8    == [s |-> 1, m |-> 15099494, e |-> -23]
F_32     == [s |-> 1, m |-> 8388608,  e |-> -18]
F_273_15 == [s |-> 1, m |-> 8950579,  e |-> -15]
F_FLT_MAX == [s |-> 1, m |-> 16777215, e |-> 104]
F_FLT_MIN == [s |-> 1, m |-> 8388608,  e |-> -149]

ccputemp_convert_unit_from_celsius(val, unit) ==
    IF unit = "CELSIUS" THEN val
    ELSE IF unit = "FAHRENHEIT" THEN FAdd(FMul(F_1_8, val), F_32)
    ELSE FAdd(val, F_273_15)

\* ------------------------------------------------------ reading the source

g_default_runtime_secs == 5
\* the null pointer, as a path: the index of no entry
NULL == -1
tmp_buf_len == 32

Digits == <<"0", "1", "2", "3", "4", "5", "6", "7", "8", "9">>
IsDigit(c) == \E d \in 1..10 : Digits[d] = c
DigitVal(c) == (CHOOSE d \in 1..10 : Digits[d] = c) - 1
IsSpace(c) == c \in {" ", "\t", "\n"}

RECURSIVE SkipSpace(_, _)
SkipSpace(buf, k) ==
    IF k <= Len(buf) /\ IsSpace(buf[k]) THEN SkipSpace(buf, k + 1) ELSE k

RECURSIVE AtoiDigits(_, _, _)
AtoiDigits(buf, k, acc) ==
    IF k > Len(buf) \/ ~IsDigit(buf[k]) THEN acc
    ELSE AtoiDigits(buf, k + 1, 10 * acc + DigitVal(buf[k]))

\* atoi: leading white space, an optional sign, then the digits
atoi(buf) ==
    LET k == SkipSpace(buf, 1) IN
    IF k <= Len(buf) /\ buf[k] = "-" THEN 0 - AtoiDigits(buf, k + 1, 0)
    ELSE IF k <= Len(buf) /\ buf[k] = "+" THEN AtoiDigits(buf, k + 1, 0)
    ELSE AtoiDigits(buf, k, 0)

\* C's int division truncates toward zero
CDiv(a, b) == IF a >= 0 THEN a \div b ELSE 0 - ((0 - a) \div b)

\* fgets(buf, n, f): at most n-1 characters, up to and including the first
\* newline; the empty sequence stands for the NULL it returns at end of file
RECURSIVE LineLen(_, _, _)
LineLen(content, k, n) ==
    IF k >= Len(content) \/ k >= n - 1 THEN k
    ELSE IF content[k + 1] = "\n" THEN k + 1
    ELSE LineLen(content, k + 1, n)

fgets(content, n) == SubSeq(content, 1, LineLen(content, 0, n))

\* A file as the program meets it at one read: whether fopen succeeds, and
\* the characters it holds.
ThermalFiles ==
    { [openable |-> FALSE, content |-> <<>>],
      [openable |-> TRUE,  content |-> <<>>],
      [openable |-> TRUE,  content |-> <<"-", "1", "8", "0", "0", "0", "\n">>],
      [openable |-> TRUE,  content |-> <<"0", "\n">>],
      [openable |-> TRUE,  content |-> <<"4", "5", "9", "9", "9", "\n">>] }

\* [rc, val]: rc = -1 leaves *val as it was
ccputemp_get_thermal_value_from_file(src_file, file, val) ==
    IF src_file = NULL THEN [rc |-> -1, val |-> val]
    ELSE IF ~file.openable THEN [rc |-> -1, val |-> val]
    ELSE IF fgets(file.content, tmp_buf_len) = <<>> THEN [rc |-> -1, val |-> val]
    ELSE [rc |-> 0,
          val |-> IntToFloat(CDiv(atoi(fgets(file.content, tmp_buf_len)), 1000))]

ccputemp_get_unit_temp_from_file(src_file, unit, file, val) ==
    LET r == ccputemp_get_thermal_value_from_file(src_file, file, val) IN
    IF src_file = NULL THEN [rc |-> -1, val |-> val]
    ELSE IF r.rc = -1 THEN [rc |-> -1, val |-> val]
    ELSE [rc |-> 0, val |-> ccputemp_convert_unit_from_celsius(r.val, unit)]

\* ------------------------------------------------------- locating a source

\* entries of g_thermal_path_list
NumCandidates == 5
\* sizeof(const char *)
PointerSize == 8
\* sizeof(g_thermal_path_list): the size in bytes, not the entry count
g_thermal_path_list_len == NumCandidates * PointerSize

\* What lies behind the list is not the program's: an index past the end
\* reads whatever follows the array.  oob says what the build makes of it:
\* "none" (every such stat fails), "hit" (the word at index `at` points at a
\* name that exists) or "fault" (the access at index `at` traps).
OobChoices ==
    { [kind |-> "none", at |-> 0] } \cup
    { [kind |-> k, at |-> n] :
        k \in {"hit", "fault"}, n \in NumCandidates..(g_thermal_path_list_len - 1) }

\* stat(g_thermal_path_list[i], &fstat) == 0
StatOk(i, exists, oob) ==
    IF i < NumCandidates THEN i \in exists ELSE oob.kind = "hit" /\ oob.at = i

RECURSIVE ScanPaths(_, _, _)
ScanPaths(i, exists, oob) ==
    IF i >= g_thermal_path_list_len
    THEN [path |-> NULL, probes |-> i, trap |-> FALSE]
    ELSE IF i >= NumCandidates /\ oob.kind = "fault" /\ oob.at = i
    THEN [path |-> NULL, probes |-> i + 1, trap |-> TRUE]
    ELSE IF StatOk(i, exists, oob)
    THEN [path |-> i, probes |-> i + 1, trap |-> FALSE]
    ELSE ScanPaths(i + 1, exists, oob)

\* [path, probes, trap]: the index of the entry returned (NULL for none), the
\* number of list indices read, and whether the scan ended in a trap
ccputemp_get_thermal_path(exists, oob) == ScanPaths(0, exists, oob)

\* ------------------------------------------------------------------- state

VARIABLES
    pc,               \* where the process is
    status,           \* "running", main's return value ("0", "-1"), or the
                      \* signal that ended the process
    opt_avg, opt_unit, unit, seconds, opt_seconds,     \* main's parsed options
    arg_seconds,      \* atoi(optarg) of -s as it was given; 0 without -s
    exists,           \* the candidate indices whose path exists
    oob,              \* what reading past the candidate list does
    src_path, probes, \* the locator's result and the indices it read
    g_ctrl_c_signal,  \* the flag the SIGINT handler sets
    sa_handler,       \* disposition of SIGINT
    i, temp_sum, temp_min, temp_max, cur_val,           \* the loop's locals
    last_tick,        \* the last per-tick line: <<[avg, secs]>>, <<>> before it
    samples, nread,   \* the values read so far, and how many reads succeeded
    sinceSignal,      \* reads that succeeded while the flag was set
    stdout, stderr,   \* what was printed, per-tick lines aside
    out_summary,      \* the final summary of normal mode: <<[max, min, avg]>>
    out_avg,          \* the average average-only mode prints: <<float>>
    logCalls, logArgs,\* calls of ccputemp_do_log and the arguments passed
    logFile,          \* the log file as the logger found it
    logEntries,       \* blocks appended to the log file
    nullWrite         \* fprintf was called on a NULL FILE *

opts    == <<opt_avg, opt_unit, unit, seconds, opt_seconds, arg_seconds>>
fs      == <<exists, oob>>
locals  == <<i, temp_sum, temp_min, temp_max, cur_val, last_tick>>
ghosts  == <<samples, nread, sinceSignal>>
outs    == <<stdout, stderr, out_summary, out_avg>>
logs    == <<logCalls, logArgs, logFile, logEntries, nullWrite>>
vars    == <<pc, status, opts, fs, src_path, probes, g_ctrl_c_signal, sa_handler,
             locals, ghosts, outs, logs>>

Units == {"CELSIUS", "FAHRENHEIT", "KELVIN"}
g_default_temp_unit == "CELSIUS"

\* the file systems a whole run is followed on: no candidate exists (and
\* every outcome of the scan behind the list), or the second and fourth do
RunFs ==
    { [exists |-> {}, oob |-> [kind |-> "none", at |-> 0]],
      [exists |-> {}, oob |-> [kind |-> "hit", at |-> NumCandidates]],
      [exists |-> {}, oob |-> [kind |-> "fault", at |-> g_thermal_path_list_len - 1]],
      [exists |-> {1, 3}, oob |-> [kind |-> "none", at |-> 0]] }

InitRest ==
    /\ status = "running"
    /\ opt_avg = 0 /\ opt_unit = 0 /\ unit = g_default_temp_unit
    /\ seconds = g_default_runtime_secs /\ opt_seconds = 0 /\ arg_seconds = 0
    /\ src_path = NULL /\ probes = 0
    /\ g_ctrl_c_signal = 0 /\ sa_handler = "SIG_DFL"
    /\ i = 0 /\ temp_sum = FZero /\ temp_min = F_FLT_MAX /\ temp_max = F_FLT_MIN
    /\ cur_val = FZero /\ last_tick = <<>>
    /\ samples = {} /\ nread = 0 /\ sinceSignal = 0
    /\ stdout = <<>> /\ stderr = <<>> /\ out_summary = <<>> /\ out_avg = <<>>
    /\ logCalls = 0 /\ logArgs = <<>> /\ logFile = "unknown"
    /\ logEntries = <<>> /\ nullWrite = FALSE

Init ==
    /\ pc = "main"
    /\ \E f \in RunFs : exists = f.exists /\ oob = f.oob
    /\ InitRest

Exit(rc) == pc' = "exit" /\ status' = rc

\* --------------------------------------------------------------------- main

UnitFlags == {<<>>} \cup { <<u>> : u \in Units } \cup { <<u, v>> : u \in Units, v \in Units }
SecondsArgs == -1..MaxSeconds

\* main: the options are taken in order; a second unit flag ends the parse
Main ==
    /\ pc = "main"
    /\ \E help \in BOOLEAN, version \in BOOLEAN, avg \in BOOLEAN,
          flags \in UnitFlags, hasS \in BOOLEAN, sArg \in SecondsArgs :
        IF Len(flags) > 1
        THEN /\ stderr' = Append(stderr, "multiple_units")
             /\ Exit("-1")
             /\ UNCHANGED <<opts, stdout>>
        ELSE IF help
        THEN /\ stdout' = Append(stdout, "help")
             /\ Exit("0")
             /\ UNCHANGED <<opts, stderr>>
        ELSE IF version
        THEN /\ stdout' = Append(stdout, "version")
             /\ Exit("0")
             /\ UNCHANGED <<opts, stderr>>
        ELSE /\ opt_avg' = IF avg THEN 1 ELSE 0
             /\ opt_unit' = IF Len(flags) = 1 THEN 1 ELSE 0
             /\ unit' = IF Len(flags) = 1 THEN flags[1] ELSE g_default_temp_unit
             /\ opt_seconds' = IF hasS THEN 1 ELSE 0
             /\ arg_seconds' = IF hasS THEN sArg ELSE 0
             /\ seconds' = IF ~hasS THEN g_default_runtime_secs
                           ELSE IF sArg < 1 THEN g_default_runtime_secs
                           ELSE sArg
             /\ pc' = IF avg THEN "avg_entry" ELSE "normal_entry"
             /\ UNCHANGED <<status, stdout, stderr>>
    /\ UNCHANGED <<fs, src_path, probes, g_ctrl_c_signal, sa_handler, locals,
                   ghosts, out_summary, out_avg, logs>>

\* ----------------------------------------------------------- the two loops

\* the min and max macros
FMin(a, b) == IF FLess(a, b) THEN a ELSE b
\* max with the comparison of min
FMaxAsMin(a, b) == IF FLess(a, b) THEN a ELSE b
FMax(a, b) == IF FLess(b, a) THEN a ELSE b

\* ccputemp_do_normal up to the prompt: locate the source
NormalEntry ==
    /\ pc = "normal_entry"
    /\ LET r == ccputemp_get_thermal_path(exists, oob) IN
        /\ src_path' = r.path
        /\ probes' = r.probes
        /\ IF r.trap
           THEN Exit("SIGSEGV") /\ UNCHANGED <<stdout, stderr>>
           ELSE IF r.path = NULL
           THEN /\ stdout' = Append(stdout, "version")
                /\ stderr' = Append(stderr, "no_source")
                /\ Exit("-1")
           ELSE /\ stdout' = Append(stdout, "version")
                /\ pc' = IF opt_unit = 0 THEN "prompt" ELSE "setup"
                /\ UNCHANGED <<status, stderr>>
    /\ UNCHANGED <<opts, fs, g_ctrl_c_signal, sa_handler, locals, ghosts,
                   out_summary, out_avg, logs>>

ToLower(c) == IF c = "C" THEN "c" ELSE IF c = "F" THEN "f" ELSE IF c = "K" THEN "k" ELSE c

\* one round of the prompt: any other character asks again
Prompt ==
    /\ pc = "prompt"
    /\ \E input_c \in {"c", "F", "k", "x"} :
        IF ToLower(input_c) \in {"c", "f", "k"}
        THEN /\ unit' = IF ToLower(input_c) = "c" THEN "CELSIUS"
                        ELSE IF ToLower(input_c) = "f" THEN "FAHRENHEIT"
                        ELSE "KELVIN"
             /\ pc' = "setup"
        ELSE UNCHANGED <<unit, pc>>
    /\ UNCHANGED <<status, opt_avg, opt_unit, seconds, opt_seconds, arg_seconds, fs,
                   src_path, probes, g_ctrl_c_signal, sa_handler, locals, ghosts,
                   outs, logs>>

\* the default duration, and sigaction(SIGINT, ...)
Setup ==
    /\ pc = "setup"
    /\ seconds' = IF opt_seconds # 0 /\ seconds < 1 THEN g_default_runtime_secs
                  ELSE seconds
    /\ sa_handler' = "ccputemp_handle_signal"
    /\ pc' = "loop_top"
    /\ UNCHANGED <<status, opt_avg, opt_unit, unit, opt_seconds, arg_seconds, fs,
                   src_path, probes, g_ctrl_c_signal, locals, ghosts, outs, logs>>

\* a loop that never looks at the flag
LoopIgnoresFlag(flag) == TRUE
\* while(g_ctrl_c_signal == 0)
LoopContinues(flag) == flag = 0
\* the bound compared with > for >=
BoundReachedLate(bounded, n, secs) == bounded # 0 /\ n > secs
\* if(opt_seconds && i >= seconds) break;
BoundReached(bounded, n, secs) == bounded # 0 /\ n >= secs

\* the top of the loop: the flag, then the bound
LoopTop ==
    /\ pc = "loop_top"
    /\ opt_seconds # 0 \/ g_ctrl_c_signal # 0 \/ i < MaxTicks
    /\ pc' = IF ~LoopContinues(g_ctrl_c_signal) THEN "finish"
             ELSE IF BoundReached(opt_seconds, i, seconds) THEN "finish"
             ELSE "tick"
    /\ UNCHANGED <<status, opts, fs, src_path, probes, g_ctrl_c_signal, sa_handler,
                   locals, ghosts, outs, logs>>

\* a failed read that only breaks out of the loop
AfterReadErrorBreak == [pc |-> "finish", status |-> "running"]
\* where a failed read leaves the loop: return -1
AfterReadError == [pc |-> "exit", status |-> "-1"]

\* the body of the loop up to i++
Tick ==
    /\ pc = "tick"
    /\ \E file \in ThermalFiles :
        LET r == ccputemp_get_unit_temp_from_file(src_path, unit, file, cur_val) IN
        IF r.rc = -1
        THEN /\ stderr' = Append(stderr, "read_error")
             /\ pc' = AfterReadError.pc
             /\ status' = AfterReadError.status
             /\ UNCHANGED <<locals, ghosts>>
        ELSE /\ cur_val' = r.val
             /\ temp_sum' = FAdd(temp_sum, r.val)
             /\ temp_min' = FMin(temp_min, r.val)
             /\ temp_max' = FMax(temp_max, r.val)
             /\ last_tick' = <<[avg |-> FDiv(FAdd(temp_sum, r.val), IntToFloat(i + 1)),
                                secs |-> i + 1]>>
             /\ i' = i + 1
             /\ samples' = samples \cup {r.val}
             /\ nread' = nread + 1
             /\ sinceSignal' = IF g_ctrl_c_signal # 0 THEN sinceSignal + 1
                               ELSE sinceSignal
             /\ pc' = "sleep"
             /\ UNCHANGED <<status, stderr>>
    /\ UNCHANGED <<opts, fs, src_path, probes, g_ctrl_c_signal, sa_handler,
                   stdout, out_summary, out_avg, logs>>

\* sleep(1), then back to the loop's condition
Sleep ==
    /\ pc = "sleep"
    /\ pc' = "loop_top"
    /\ UNCHANGED <<status, opts, fs, src_path, probes, g_ctrl_c_signal, sa_handler,
                   locals, ghosts, outs, logs>>

\* the average as the summary and the logger are given it
SummaryAvg(sum, n) == FDiv(sum, IntToFloat(n + 1))
\* the seconds the logger is given
SummarySecs(n) == n + 1

\* after the loop: the summary and the call of the logger, or the error line
Finish ==
    /\ pc = "finish"
    /\ IF i > 0
       THEN /\ out_summary' = <<[max |-> temp_max, min |-> temp_min,
                                 avg |-> SummaryAvg(temp_sum, i)]>>
            /\ stdout' = Append(stdout, "summary")
            /\ logCalls' = logCalls + 1
            /\ logArgs' = <<[avg |-> SummaryAvg(temp_sum, i), min |-> temp_min,
                             max |-> temp_max, unit |-> unit,
                             secs |-> SummarySecs(i)]>>
            /\ pc' = "do_log"
            /\ UNCHANGED <<status, stderr>>
       ELSE /\ stderr' = Append(stderr, "not_enough")
            /\ Exit("0")
            /\ UNCHANGED <<stdout, out_summary, logCalls, logArgs>>
    /\ UNCHANGED <<opts, fs, src_path, probes, g_ctrl_c_signal, sa_handler, locals,
                   ghosts, out_avg, logFile, logEntries, nullWrite>>

\* ccputemp_do_log, and the return 0 that follows it.  lf is the log file as
\* stat and fopen find it; ub is what fprintf(NULL, ...) does in this build.
DoLog ==
    /\ pc = "do_log"
    /\ \E lf \in {"missing", "unopenable", "appendable"}, ub \in {"trap", "ignored"} :
        /\ logFile' = lf
        /\ IF lf = "missing"
           THEN /\ stderr' = Append(stderr, "log_not_located")
                /\ Exit("0")
                /\ UNCHANGED <<stdout, logEntries, nullWrite>>
           ELSE IF lf = "unopenable"
           THEN \* no return after the diagnostic: fprintf and fclose on NULL
                /\ stderr' = Append(stderr, "log_not_opened")
                /\ nullWrite' = TRUE
                /\ IF ub = "trap"
                   THEN Exit("SIGSEGV") /\ UNCHANGED stdout
                   ELSE Exit("0") /\ stdout' = Append(stdout, "log_updated")
                /\ UNCHANGED logEntries
           ELSE /\ logEntries' = logEntries \o logArgs
                /\ stdout' = Append(stdout, "log_updated")
                /\ Exit("0")
                /\ UNCHANGED <<stderr, nullWrite>>
    /\ UNCHANGED <<opts, fs, src_path, probes, g_ctrl_c_signal, sa_handler, locals,
                   ghosts, out_summary, out_avg, logCalls, logArgs>>

\* ccputemp_do_avg up to its loop.  With no source it prints the candidate
\* list with the same byte count as bound, reading past the list as strings.
AvgEntry ==
    /\ pc = "avg_entry"
    /\ LET r == ccputemp_get_thermal_path(exists, oob) IN
        /\ src_path' = r.path
        /\ probes' = r.probes
        /\ IF r.trap
           THEN Exit("SIGSEGV") /\ UNCHANGED <<stdout, stderr, seconds>>
           ELSE IF r.path = NULL
           THEN /\ stdout' = Append(stdout, "version")
                /\ stderr' = Append(stderr, "no_source")
                /\ \E rc \in {"-1", "SIGSEGV"} : Exit(rc)
                /\ UNCHANGED seconds
           ELSE /\ stdout' = Append(stdout, "version")
                /\ seconds' = IF seconds < 1 THEN g_default_runtime_secs ELSE seconds
                /\ pc' = "avg_loop"
                /\ UNCHANGED <<status, stderr>>
    /\ UNCHANGED <<opt_avg, opt_unit, unit, opt_seconds, arg_seconds, fs,
                   g_ctrl_c_signal, sa_handler, locals, ghosts, out_summary, out_avg,
                   logs>>

\* one iteration of for(i=0; i<(size_t)(seconds); i++), its sleep included
AvgTick ==
    /\ pc = "avg_loop"
    /\ i < seconds
    /\ \E file \in ThermalFiles :
        LET r == ccputemp_get_unit_temp_from_file(src_path, unit, file, cur_val) IN
        IF r.rc = -1
        THEN /\ stderr' = Append(stderr, "read_error")
             /\ Exit("-1")
             /\ UNCHANGED <<locals, ghosts>>
        ELSE /\ cur_val' = r.val
             /\ temp_sum' = FAdd(temp_sum, r.val)
             /\ i' = i + 1
             /\ samples' = samples \cup {r.val}
             /\ nread' = nread + 1
             /\ UNCHANGED <<pc, status, stderr, temp_min, temp_max, last_tick,
                            sinceSignal>>
    /\ UNCHANGED <<opts, fs, src_path, probes, g_ctrl_c_signal, sa_handler,
                   stdout, out_summary, out_avg, logs>>

\* the average over one sample too many
AvgResultOffByOne(sum, secs) == FDiv(sum, IntToFloat(secs + 1))
\* the average that average-only mode prints
AvgResult(sum, secs) == FDiv(sum, IntToFloat(secs))

AvgFinish ==
    /\ pc = "avg_loop"
    /\ ~(i < seconds)
    /\ out_avg' = <<AvgResult(temp_sum, seconds)>>
    /\ stdout' = Append(stdout, "average")
    /\ Exit("0")
    /\ UNCHANGED <<opts, fs, src_path, probes, g_ctrl_c_signal, sa_handler, locals,
                   ghosts, stderr, out_summary, logs>>

\* SIGINT arrives: ccputemp_handle_signal once it is installed, and the
\* default disposition (the process ends) before that and in average-only mode
Interrupt ==
    /\ pc # "exit"
    /\ IF sa_handler = "ccputemp_handle_signal"
       THEN g_ctrl_c_signal' = 1 /\ UNCHANGED <<pc, status>>
       ELSE Exit("SIGINT") /\ UNCHANGED g_ctrl_c_signal
    /\ UNCHANGED <<opts, fs, src_path, probes, sa_handler, locals, ghosts, outs, logs>>

Next ==
    \/ Main
    \/ NormalEntry
    \/ Prompt
    \/ Setup
    \/ LoopTop
    \/ Tick
    \/ Sleep
    \/ Finish
    \/ DoLog
    \/ AvgEntry
    \/ AvgTick
    \/ AvgFinish
    \/ Interrupt

Spec == Init /\ [][Next]_vars

\* ------------------------------------------------- the locator on its own

\* every set of existing candidates, and everything the memory behind the
\* list can hold
LocatorInit ==
    /\ pc = "locate"
    /\ exists \in SUBSET (0..(NumCandidates - 1))
    /\ oob \in OobChoices
    /\ InitRest

Locate ==
    /\ pc = "locate"
    /\ src_path' = ccputemp_get_thermal_path(exists, oob).path
    /\ probes' = ccputemp_get_thermal_path(exists, oob).probes
    /\ status' = IF ccputemp_get_thermal_path(exists, oob).trap THEN "SIGSEGV"
                  ELSE status
    /\ pc' = "located"
    /\ UNCHANGED <<opts, fs, g_ctrl_c_signal, sa_handler, locals, ghosts,
                   outs, logs>>

LocatorSpec == LocatorInit /\ [][Locate]_vars

\* ------------------------------------------------------------ the properties

Has(seq, x) == \E k \in 1..Len(seq) : seq[k] = x

\* the loop of normal mode was left by its condition or its break
StoppedNormal ==
    opt_avg = 0 /\ (pc \in {"finish", "do_log"} \/ Has(stdout, "summary")
                    \/ Has(stderr, "not_enough"))
\* a read failed and ended the run
StoppedError == Has(stderr, "read_error")

\* the source is one of the candidates, found in the list
Located == src_path \in exists

\* the -s duration a run is to have
Duration ==
    IF opt_seconds = 0 \/ arg_seconds < 1 THEN g_default_runtime_secs ELSE arg_seconds

\* C1: in normal mode the average of the final summary, and the one passed to
\* the logger, is the sum of the samples divided by the number of samples.
C1_SummaryAverageIsSumOverN ==
    Located =>
        /\ out_summary # <<>> =>
                out_summary[1].avg = FDiv(temp_sum, IntToFloat(nread))
        /\ logArgs # <<>> => logArgs[1].avg = FDiv(temp_sum, IntToFloat(nread))

\* C2: in normal mode, once a sample has been taken, the running minimum is at
\* most, and the running maximum at least, every sample seen so far.
C2_MinMaxBoundSamples ==
    (opt_avg = 0 /\ nread > 0) =>
        \A v \in samples : FLeq(temp_min, v) /\ FLeq(v, temp_max)

C2_Witness ==
    /\ Located /\ opt_avg = 0 /\ pc = "sleep" /\ nread >= 3
    /\ \E v \in samples : v.s = -1
    /\ \E v \in samples : v.m = 0
    /\ \E v \in samples : v.s = 1 /\ v.m # 0

\* C3: a bounded run never takes more than its duration in ticks, leaves the
\* loop without an interruption only after exactly that many samples, and a
\* requested duration below 1 has become the default before the loop.
C3_BoundedRunTicks ==
    (opt_avg = 0 /\ opt_seconds # 0 /\ pc \notin {"main", "normal_entry"}) =>
        /\ seconds = Duration
        /\ seconds >= 1
        /\ nread <= seconds
        /\ pc = "tick" => nread < seconds
        /\ (pc = "finish" /\ g_ctrl_c_signal = 0) => (nread = seconds /\ i = seconds)

C3_Witness ==
    /\ Located /\ opt_avg = 0 /\ opt_seconds # 0 /\ arg_seconds = 0
    /\ pc = "finish" /\ g_ctrl_c_signal = 0 /\ nread = g_default_runtime_secs

\* C4: a failed read ends the run with a non-zero status, without a summary
\* or an average, and without the logger being called.
C4_ReadFailureAborts ==
    StoppedError =>
        /\ pc = "exit" /\ status = "-1"
        /\ out_summary = <<>> /\ out_avg = <<>>
        /\ ~Has(stdout, "summary") /\ ~Has(stdout, "average")
        /\ logCalls = 0 /\ logEntries = <<>>

C4_Witness ==
    Located /\ StoppedError /\ opt_avg = 0 /\ nread >= 2 /\ FLess(FZero, temp_sum)

Least(S) == CHOOSE x \in S : \A y \in S : x <= y

\* C5: the locator reads only the five candidates, returns the first one that
\* exists, and NULL when none does.
C5_LocatorStaysInList ==
    pc = "located" =>
        /\ probes <= NumCandidates
        /\ status # "SIGSEGV"
        /\ src_path = IF exists = {} THEN NULL ELSE Least(exists)

\* C6: when the log file is missing or cannot be opened, the logger prints a
\* diagnostic, writes nothing, creates nothing, and the run ends with status 0.
C6_LogFailureIsHarmless ==
    (Located /\ logFile \in {"missing", "unopenable"}) =>
        /\ Has(stderr, "log_not_located") \/ Has(stderr, "log_not_opened")
        /\ ~nullWrite
        /\ logEntries = <<>>
        /\ status = "0"

\* C7 as stated: average-only mode takes exactly its duration in samples, never
\* reads the flag or calls the logger, and for a constant sample prints that
\* sample (to the one decimal it prints, in every unit).
C7_ConstantAverageExact ==
    (Located /\ opt_avg = 1 /\ out_avg # <<>>) =>
        /\ nread = Duration /\ logCalls = 0 /\ logEntries = <<>>
        /\ g_ctrl_c_signal = 0
        /\ \A x \in samples : Cardinality(samples) = 1 => Fmt1(out_avg[1]) = Fmt1(x)

Abs(n) == IF n < 0 THEN 0 - n ELSE n

\* C7 amended: as above, but for a constant sample the average is that sample
\* exactly in Celsius, where every partial sum is an integer; in Fahrenheit and
\* Kelvin each addition rounds, and the printed tenth may be off by one.
C7_ConstantAverage ==
    (opt_avg = 1 /\ out_avg # <<>>) =>
        /\ nread = Duration /\ logCalls = 0 /\ logEntries = <<>>
        /\ g_ctrl_c_signal = 0
        /\ \A x \in samples : Cardinality(samples) = 1 =>
              /\ unit = "CELSIUS" => out_avg[1] = x
              /\ Abs(Fmt1(out_avg[1]) - Fmt1(x)) <= 1

C7_Witness ==
    /\ Located /\ opt_avg = 1 /\ out_avg # <<>> /\ unit = "CELSIUS" /\ opt_seconds # 0
    /\ arg_seconds = 3 /\ Cardinality(samples) = 1
    /\ \E x \in samples : x.s = -1

\* C8: a run of normal mode that left its loop ends with status 0; with a
\* sample it has printed the summary and called the logger once, without one
\* it has printed the error line and done neither.
C8_TerminalAction ==
    (Located /\ StoppedNormal /\ pc = "exit") =>
        /\ status = "0"
        /\ nread > 0 => (Has(stdout, "summary") /\ out_summary # <<>> /\ logCalls = 1)
        /\ nread = 0 => /\ ~Has(stdout, "summary") /\ out_summary = <<>>
                        /\ logCalls = 0 /\ Has(stderr, "not_enough")

\* C9 as stated: once the flag is set at most one more sample is taken, the
\* run ends in Stopped(Normal) and never in Stopped(Error), and an unbounded
\* run leaves its loop only with the flag set.
C9_InterruptStopsNormally ==
    /\ sinceSignal <= 1
    /\ (Located /\ g_ctrl_c_signal # 0) => ~StoppedError
    /\ (StoppedNormal /\ opt_seconds = 0) => g_ctrl_c_signal # 0

\* C9 amended: the run may still end in Stopped(Error), but only when the read
\* of the tick that was in progress as the flag was set fails; a tick that is
\* under way with the flag set is that tick, no sample is taken after it, and
\* the run ends in one of the two stopped states.
C9_InterruptBetweenTicks ==
    /\ sinceSignal <= 1
    /\ (g_ctrl_c_signal # 0 /\ pc = "tick") => sinceSignal = 0
    /\ (g_ctrl_c_signal # 0 /\ StoppedError) => sinceSignal = 0
    /\ (g_ctrl_c_signal # 0 /\ pc = "exit") => (StoppedNormal \/ StoppedError)
    /\ (StoppedNormal /\ opt_seconds = 0) => g_ctrl_c_signal # 0

C9_Witness ==
    /\ Located /\ opt_avg = 0 /\ opt_seconds = 0 /\ sinceSignal = 1 /\ nread = 3
    /\ pc = "exit" /\ Has(stdout, "summary")

\* C10: the seconds passed to the logger are the ticks the run performed, the
\* count on the last per-tick line.
C10_LoggedSecondsAreTicks ==
    (Located /\ logArgs # <<>>) =>
        /\ logArgs[1].secs = nread
        /\ last_tick # <<>> /\ logArgs[1].secs = last_tick[1].secs

====
